---- MODULE Spec2Model ----
(***************************************************************************)
(* A model of the RT-call reference page (src/js/rt-call-script.js): the   *)
(* two startup fetches, the content formatter, the session renderer, the   *)
(* two-tier navigation, the jump-link highlight, the variable tooltips and *)
(* the popups.  The main title, the captions of the navigation controls    *)
(* and scrolling are not part of the state.  No handler but those of the   *)
(* session titles, of the command buttons and of the popups reads or       *)
(* writes the popups, so they are exercised together with the renderer     *)
(* (SpecRender) and stay closed in the other specifications.               *)
(*                                                                         *)
(* The map view (the script of src/data/mark-down/phase-2-plan.md) is      *)
(* another page: its state is the visibility flag of each node type and    *)
(* the checkboxes of the filters.  The canvas, which drawScene paints from *)
(* the flags, is not part of the state.  The map is exercised in SpecMap   *)
(* and stays as its script starts in the other specifications.             *)
(*                                                                         *)
(* Strings are sequences of one-character strings.  JavaScript values are  *)
(* records tagged with their type, so that null, undefined, strings and    *)
(* objects can be told apart the way the code tells them apart.  A call    *)
(* that can end by an uncaught exception gives [threw, value].             *)
(***************************************************************************)
EXTENDS Integers, Sequences, FiniteSets, TLC

VARIABLES
    callFile,        \* what the call-data URL serves (a JS value once parsed)
    paramFile,       \* what the parameter-data URL serves
    appPc,           \* position of initializeApp
    fetchPc,         \* position of each fetchData call
    fetchOutcome,    \* how the request of each fetchData call ended
    fetchPromise,    \* the promise each fetchData call returned
    renderThrew,     \* TRUE when the last render pass ended by an uncaught exception
    content,         \* .communication-table-container
    filterButtons,   \* #category-filter-container: the category buttons
    phaseList,       \* #phase-list-container: ALL link, category links, jump links
    tooltipsWired,   \* setupTooltips has attached listeners to the current spans
    tooltipTimeout,  \* the pending show-timer: 0 none, n > 0 span n, -1 a detached span
    visibleSpans,    \* the variable spans of the document bearing class "visible"
    highlighted,     \* the session wrappers of the document bearing class "highlighted"
    highlightTimers, \* pending highlight-clear timers, oldest first (0: detached target)
    popups,          \* the popup overlays appended to document.body, oldest first
    mapPc,           \* position of the map script
    visibleNodeTypes, \* the map's flag of each node type
    filterChecked    \* the checked state of each checkbox of #nodeTypeFilters, by id

vars == <<callFile, paramFile, appPc, fetchPc, fetchOutcome, fetchPromise, renderThrew, content,
          filterButtons, phaseList, tooltipsWired, tooltipTimeout,
          visibleSpans, highlighted, highlightTimers, popups,
          mapPc, visibleNodeTypes, filterChecked>>

mapVars == <<mapPc, visibleNodeTypes, filterChecked>>

----------------------------------------------------------------------------
(* Bounds of the model. *)

MaxHighlightTimers == 2
MaxRecords == 2
MaxPopups == 2
MaxInner == 3
MaxEntries == 2
\* the names in the parameter list of a command
MaxParameters == 2
\* the characters of a free text given to the formatter
MaxText == 3

----------------------------------------------------------------------------
(* JavaScript values. *)

JNull == [type |-> "null"]
JUndefined == [type |-> "undefined"]
JStr(s) == [type |-> "string", s |-> s]
JBool(b) == [type |-> "boolean", b |-> b]
JArray(items) == [type |-> "array", items |-> items]

\* JavaScript's ToBoolean for the values the model uses.
Truthy(v) ==
    CASE v.type = "null" -> FALSE
      [] v.type = "undefined" -> FALSE
      [] v.type = "string" -> v.s # <<>>
      [] v.type = "boolean" -> v.b
      [] OTHER -> TRUE

----------------------------------------------------------------------------
(* Characters and strings. *)

UpperLetters == {"A", "B", "G", "N", "Q", "T"}
LowerLetters == {"a", "b", "g", "n", "q", "t"}
Digits == {"7"}
Whitespace == {" "}

IsAlnum(c) == c \in UpperLetters \cup LowerLetters \cup Digits

ToLower(c) ==
    CASE c = "A" -> "a" [] c = "B" -> "b" [] c = "G" -> "g"
      [] c = "N" -> "n" [] c = "Q" -> "q" [] c = "T" -> "t"
      [] OTHER -> c

MapStr(s, F(_)) == [i \in 1..Len(s) |-> F(s[i])]

\* normalizeString without toLowerCase.
normalizeStringKeepingCase(str) == SelectSeq(str, IsAlnum)

\* str.replace(/[^a-zA-Z0-9]/g, '').toLowerCase()
normalizeString(str) == MapStr(SelectSeq(str, IsAlnum), ToLower)

\* String.prototype.trim
RECURSIVE TrimLeft(_)
TrimLeft(s) == IF s # <<>> /\ Head(s) \in Whitespace THEN TrimLeft(Tail(s)) ELSE s

RECURSIVE TrimRight(_)
TrimRight(s) ==
    IF s # <<>> /\ s[Len(s)] \in Whitespace
    THEN TrimRight(SubSeq(s, 1, Len(s) - 1)) ELSE s

Trim(s) == TrimRight(TrimLeft(s))

\* title.replace(/\s+/g, '-'): every run of whitespace becomes one dash.
RECURSIVE DashWhitespace(_)
DashWhitespace(s) ==
    IF s = <<>> THEN <<>>
    ELSE IF Head(s) \in Whitespace
         THEN <<"-">> \o DashWhitespace(TrimLeft(s))
         ELSE <<Head(s)>> \o DashWhitespace(Tail(s))

\* The characters of a literal, for building the fixed texts of the page.
NotAvailableText == <<"N", "o", "t", " ", "a", "v", "a", "i", "l", "a", "b", "l", "e">>
NoDataPrefix ==
    <<"N", "o", " ", "d", "a", "t", "a", " ", "f", "o", "u", "n", "d", " ", "f", "o", "r", ":", " ">>

----------------------------------------------------------------------------
(* HTML produced by the formatter: a sequence of tokens, a character, the  *)
(* opening tag of a span (its class and data-tooltip-text) or a closing    *)
(* tag.                                                                    *)

Ch(c) == [t |-> "ch", c |-> c]
SpanOpen(cls, tip) == [t |-> "open", cls |-> cls, tip |-> tip]
SpanClose == [t |-> "close"]

Text(s) == [i \in 1..Len(s) |-> Ch(s[i])]

\* The outcome of a call: a value, or an exception thrown.
Returned(v) == [threw |-> FALSE, value |-> v]
Thrown == [threw |-> TRUE, value |-> <<>>]

----------------------------------------------------------------------------
(* Module 2.4: formatCallContent.  The parameter dictionary is the         *)
(* sequence of its entries in key order, each                              *)
(* [name, description, hasValues, values].                                 *)

\* ({[^{}]*?}) at position i: the index of the closing brace, or 0.
RECURSIVE BraceScan(_, _)
BraceScan(text, j) ==
    IF j > Len(text) THEN 0
    ELSE IF text[j] = "}" THEN j
    ELSE IF text[j] = "{" THEN 0
    ELSE BraceScan(text, j + 1)

BraceEnd(text, i) == IF text[i] = "{" THEN BraceScan(text, i + 1) ELSE 0

\* One alternative of (key1|key2|...) under the flag i, at position i.
KeyMatchesAt(text, i, key) ==
    /\ i + Len(key) - 1 <= Len(text)
    /\ \A k \in 1..Len(key) : ToLower(text[i + k - 1]) = ToLower(key[k])

\* The length matched by the second group at position i, -1 when it does not
\* match: the first alternative that matches wins; with no key at all the
\* group is empty and matches the empty string.
NameMatchLen(text, i, dict) ==
    IF Len(dict) = 0 THEN 0
    ELSE LET hits == {n \in 1..Len(dict) : KeyMatchesAt(text, i, dict[n].name)}
         IN IF hits = {} THEN -1
            ELSE LET first == CHOOSE n \in hits : \A m \in hits : n <= m
                 IN Len(dict[first].name)

\* The name test of the for-in loop with startsWith in place of ===.
NameStartsVariable(dict, n, normalizedVariable) ==
    /\ Len(normalizeString(dict[n].name)) <= Len(normalizedVariable)
    /\ SubSeq(normalizedVariable, 1, Len(normalizeString(dict[n].name)))
       = normalizeString(dict[n].name)

\* matchFound of the for-in loop, for entry n.
NameEquals(dict, n, normalizedVariable) ==
    normalizeString(dict[n].name) = normalizedVariable

\* The value test of the for-in loop without normalizeString(paramValue).
ValueEqualsExact(dict, n, normalizedVariable) ==
    \E v \in 1..Len(dict[n].values) : dict[n].values[v] = normalizedVariable

ValueEquals(dict, n, normalizedVariable) ==
    \E v \in 1..Len(dict[n].values) :
        normalizeString(dict[n].values[v]) = normalizedVariable

\* The lookup as two loops, the names of all entries before their values.
ParamLoopNameFirst(dict, n, normalizedVariable) ==
    LET byName == {m \in n..Len(dict) : NameEquals(dict, m, normalizedVariable)}
        byValue == {m \in n..Len(dict) : ValueEquals(dict, m, normalizedVariable)}
    IN IF byName # {} THEN Returned(CHOOSE m \in byName : \A k \in byName : m <= k)
       ELSE IF byValue # {} THEN Returned(CHOOSE m \in byValue : \A k \in byValue : m <= k)
       ELSE Returned(0)

\* The for-in loop over the dictionary from entry n on: the index of the first
\* entry that matches (0: none), or an exception when an entry whose name does
\* not match has no values array (currentParam.values.some on undefined).
RECURSIVE ParamLoop(_, _, _)
ParamLoop(dict, n, normalizedVariable) ==
    IF n > Len(dict) THEN Returned(0)
    ELSE IF NameEquals(dict, n, normalizedVariable) THEN Returned(n)
    ELSE IF ~dict[n].hasValues THEN Thrown
    ELSE IF ValueEquals(dict, n, normalizedVariable) THEN Returned(n)
    ELSE ParamLoop(dict, n + 1, normalizedVariable)

TooltipText(entry) == entry.name \o <<":", " ">> \o Trim(entry.description)

\* The callback returning nothing for a placeholder that was not found.
VariableSpanOmitted(found, variableValue, dict) ==
    IF found.threw THEN Thrown
    ELSE IF found.value > 0
    THEN Returned(<<SpanOpen("variable-text", TooltipText(dict[found.value])), Ch("{")>>
                  \o Text(variableValue) \o <<Ch("}"), SpanClose>>)
    ELSE Returned(<<>>)

\* The replacement of a curly-braced match {variableValue}, `found` being the
\* outcome of the for-in loop.
VariableSpanOf(found, variableValue, dict) ==
    IF found.threw THEN Thrown
    ELSE IF found.value > 0
    THEN Returned(<<SpanOpen("variable-text", TooltipText(dict[found.value])), Ch("{")>>
                  \o Text(variableValue) \o <<Ch("}"), SpanClose>>)
    ELSE Returned(<<SpanOpen("no-tooltip-text", NoDataPrefix \o variableValue), Ch("{")>>
                  \o Text(variableValue) \o <<Ch("}"), SpanClose>>)

VariableSpan(variableValue, dict) ==
    VariableSpanOf(ParamLoop(dict, 1, normalizeString(variableValue)), variableValue, dict)

\* commandParameterData[paramName]: the entry whose key is exactly paramName.
OwnKey(dict, paramName) ==
    LET hits == {n \in 1..Len(dict) : dict[n].name = paramName}
    IN IF hits = {} THEN 0 ELSE CHOOSE n \in hits : TRUE

\* The span of a standalone name holding the name in lower case.
NameSpanLowered(n, match, dict) ==
    IF n > 0
    THEN <<SpanOpen("variable-text", TooltipText(dict[n]))>>
         \o Text(MapStr(match, ToLower)) \o <<SpanClose>>
    ELSE Text(match)

\* The replacement of a standalone parameter-name match, n being the entry
\* commandParameterData[match] (0: undefined).
NameSpanOf(n, match, dict) ==
    IF n > 0
    THEN <<SpanOpen("variable-text", TooltipText(dict[n]))>> \o Text(match) \o <<SpanClose>>
    ELSE Text(match)

NameSpan(match, dict) == NameSpanOf(OwnKey(dict, match), match, dict)

\* The callback's result for the match the regex finds at position i, and the
\* position the scan goes on from: j is the closing brace of the first group
\* (0: none), m the length matched by the second group.
MatchOf(text, i, dict, j, m) ==
    IF j > 0
    THEN [out |-> VariableSpan(SubSeq(text, i + 1, j - 1), dict), next |-> j + 1]
    ELSE IF m > 0
    THEN [out |-> Returned(NameSpan(SubSeq(text, i, i + m - 1), dict)), next |-> i + m]
    ELSE [out |-> Returned(<<Ch(text[i])>>), next |-> i + 1]

MatchAt(text, i, dict) ==
    MatchOf(text, i, dict, BraceEnd(text, i), NameMatchLen(text, i, dict))

Joined(head, rest) ==
    IF rest.threw THEN Thrown ELSE Returned(head \o rest.value)

\* String.prototype.replace with the global regex, from position i on.
RECURSIVE ReplaceFrom(_, _, _)
RECURSIVE ReplaceAfter(_, _, _)
ReplaceAfter(text, dict, match) ==
    IF match.out.threw THEN Thrown
    ELSE Joined(match.out.value, ReplaceFrom(text, match.next, dict))

ReplaceFrom(text, i, dict) ==
    IF i > Len(text) THEN Returned(<<>>)
    ELSE ReplaceAfter(text, dict, MatchAt(text, i, dict))

\* commandParameterData is the JS value the page was given: Object.keys of
\* null throws, as does .replace of a content that is no string.
formatCallContent(fcContent, commandParameterData) ==
    IF fcContent = JNull THEN Returned(Text(NotAvailableText))
    ELSE IF fcContent.type # "string" \/ commandParameterData.type # "object" THEN Thrown
    ELSE ReplaceFrom(fcContent.s, 1, commandParameterData.entries)

----------------------------------------------------------------------------
(* Module 2.5: createButtonOrIcon.  A command is JNull, JUndefined or an   *)
(* object [type, caption, buttonCaption, playOnAwake, allCmdInitial] whose *)
(* fields are JS values (JUndefined when the JSON has no such field).  The  *)
(* field allParameterId is there for the commands made by WithParameters.  *)

Command(caption, buttonCaption, playOnAwake, allCmdInitial) ==
    [type |-> "object", caption |-> caption, buttonCaption |-> buttonCaption,
     playOnAwake |-> playOnAwake, allCmdInitial |-> allCmdInitial,
     allParameterId |-> JUndefined]

\* The command with allParameterId: [paramName, ...]
WithParameters(commandData, names) ==
    [commandData EXCEPT !.allParameterId = JArray(names)]

\* { caption: 'ATC' }
AtcCommand == Command(JStr(<<"A", "T", "C">>), JUndefined, JUndefined, JUndefined)

Icon == [kind |-> "icon", state |-> "icon", caption |-> <<>>, click |-> "none"]
Button(state, caption, click) ==
    [kind |-> "button", state |-> state, caption |-> caption, click |-> click]

\* !commandData || !commandData.buttonCaption
NoCaption(commandData) ==
    \/ ~Truthy(commandData)
    \/ ~Truthy(commandData.buttonCaption)

createButtonOrIcon(isPilot, commandData) ==
    IF isPilot
    THEN IF NoCaption(commandData)
         THEN Button("null-state", <<>>, "none")
         ELSE IF commandData.playOnAwake = JBool(TRUE)
              THEN Button("inactive", commandData.buttonCaption.s, "autoPlay")
              ELSE Button("enabled", commandData.buttonCaption.s, "details")
    ELSE Icon

----------------------------------------------------------------------------
(* Module 2.6: the popups.  A popup overlay is its [kind, title,           *)
(* parameters]; parameters holds, for each name the parameters section     *)
(* lists, [name, detail, options]: detail is FALSE for the paragraph "No   *)
(* detailed data found." and options are the options of the dropdown.      *)

\* showDescriptionPopup up to document.body.appendChild.
showDescriptionPopup(title) ==
    [kind |-> "description", title |-> title, parameters |-> <<>>]

\* s.trim().toLowerCase()
TrimLower(s) == MapStr(Trim(s), ToLower)

\* The for-in loop over commandParameterData from entry n on: the index of the
\* first entry whose key, trimmed and lowercased, is normalizedParamName (0:
\* matchedParam stays null).
RECURSIVE matchedParam(_, _, _)
matchedParam(dict, n, normalizedParamName) ==
    IF n > Len(dict) THEN 0
    ELSE IF TrimLower(dict[n].name) = normalizedParamName THEN n
    ELSE matchedParam(dict, n + 1, normalizedParamName)

\* What the callback of allParameterId.map returns for paramName.
ParameterDetail(paramName, dict, matched) ==
    IF matched = 0 THEN [name |-> paramName, detail |-> FALSE, options |-> <<>>]
    ELSE [name |-> paramName, detail |-> TRUE,
          options |-> IF dict[matched].hasValues THEN dict[matched].values ELSE <<>>]

\* commandData.allParameterId && commandData.allParameterId.length > 0
hasParameters(commandData) ==
    /\ Truthy(commandData.allParameterId)
    /\ Len(commandData.allParameterId.items) > 0

parameterListHtml(names, dict) ==
    [i \in 1..Len(names) |->
        ParameterDetail(names[i], dict, matchedParam(dict, 1, TrimLower(names[i])))]

parametersHtml(commandData, commandParameterData) ==
    IF hasParameters(commandData)
    THEN parameterListHtml(commandData.allParameterId.items, commandParameterData.entries)
    ELSE <<>>

\* showButtonDetailsPopup up to document.body.appendChild: the overlay, or an
\* exception when commandData.allCmdInitial has no join.
showButtonDetailsPopup(commandData, commandParameterData) ==
    IF commandData.allCmdInitial.type # "array" THEN Thrown
    ELSE Returned([kind |-> "details", title |-> commandData.buttonCaption.s,
                   parameters |-> parametersHtml(commandData, commandParameterData)])

\* showAutoPlayMessagePopup up to document.body.appendChild.
showAutoPlayMessagePopup == [kind |-> "autoPlay", title |-> <<>>, parameters |-> <<>>]

Opened(overlays, popup) ==
    IF popup.threw THEN overlays ELSE Append(overlays, popup.value)

\* The click listener createButtonOrIcon gave the button of a row.
ButtonListener(overlays, row, commandParameterData) ==
    CASE row.control.click = "autoPlay" -> Append(overlays, showAutoPlayMessagePopup)
      [] row.control.click = "details" ->
            Opened(overlays, showButtonDetailsPopup(row.commandData, commandParameterData))
      [] OTHER -> overlays

\* closePopup: document.body.removeChild(popupOverlay)
closePopup(overlays, p) ==
    SubSeq(overlays, 1, p - 1) \o SubSeq(overlays, p + 1, Len(overlays))

----------------------------------------------------------------------------
(* Module 2.3: createCallDataElement.  A record of the call data is        *)
(* [title, category, initialCall, atcCall, feedbackCall, initialCommand,   *)
(* feedbackCommand]; title and category are strings, the rest JS values.   *)

\* commandData.caption !== 'ATC'; reading .caption of null or undefined throws.
IsPilot(commandData) ==
    IF commandData.type \in {"null", "undefined"} THEN Thrown
    ELSE Returned(commandData.caption # AtcCommand.caption)

\* The row, from the formatted text and the outcome of reading the caption;
\* commandData is what the click listener of its button holds.
RowOf(label, type, html, pilot, commandData) ==
    IF html.threw \/ pilot.threw THEN Thrown
    ELSE Returned([label |-> label, cls |-> type, html |-> html.value,
                   control |-> createButtonOrIcon(pilot.value, commandData),
                   commandData |-> commandData])

createRow(label, text, type, commandData, dict) ==
    RowOf(label, type, formatCallContent(text, dict), IsPilot(commandData), commandData)

\* The arguments of the three createRow calls, in the order they are made.
RowArguments(sessionData) ==
    << [label |-> "Initial Call", text |-> sessionData.initialCall,
        type |-> "call-initial-call", commandData |-> sessionData.initialCommand],
       [label |-> "ATC Call", text |-> sessionData.atcCall,
        type |-> "call-atc-call", commandData |-> AtcCommand],
       [label |-> "Feedback", text |-> sessionData.feedbackCall,
        type |-> "call-feedback", commandData |-> sessionData.feedbackCommand] >>

CreateRows(args, dict) ==
    [i \in 1..Len(args) |->
        createRow(args[i].label, args[i].text, args[i].type, args[i].commandData, dict)]

\* The rows appended to the table; an exception of any createRow call leaves
\* createCallDataElement before it returns.
AppendRows(rows) ==
    IF \E i \in 1..Len(rows) : rows[i].threw THEN Thrown
    ELSE Returned([i \in 1..Len(rows) |-> rows[i].value])

createCallDataElement(sessionData, dict) ==
    AppendRows(CreateRows(RowArguments(sessionData), dict))

----------------------------------------------------------------------------
(* Module 2.1: renderCallSessions.  The content container holds a message  *)
(* paragraph or the session wrappers appended so far.                      *)

SessionPrefix == <<"s", "e", "s", "s", "i", "o", "n", "-">>

\* `session-${sessionData.title.replace(/\s+/g, '-')}`
SessionId(title) == SessionPrefix \o DashWhitespace(title)

EmptyContent == [message |-> "none", sessions |-> <<>>]
ErrorContent == [message |-> "error", sessions |-> <<>>]
NoDataContent == [message |-> "no-data", sessions |-> <<>>]

\* One pass of the forEach: the wrapper of record `index`, or an exception.
WrapperOf(rows, sessionsData, index) ==
    IF rows.threw THEN Thrown
    ELSE Returned([id |-> SessionId(sessionsData[index].title),
                   title |-> sessionsData[index].title,
                   number |-> index, total |-> Len(sessionsData),
                   rows |-> rows.value])

SessionWrapper(sessionsData, index, dict) ==
    WrapperOf(createCallDataElement(sessionsData[index], dict), sessionsData, index)

Prepended(wrapper, rest) ==
    [threw |-> rest.threw, value |-> <<wrapper>> \o rest.value]

\* The wrappers appended by the forEach from record `index` on; an exception
\* ends the loop and leaves what was appended before it.
RECURSIVE AppendSessions(_, _, _)
RECURSIVE AppendAfter(_, _, _, _)
AppendAfter(wrapper, sessionsData, index, dict) ==
    IF wrapper.threw THEN [threw |-> TRUE, value |-> <<>>]
    ELSE Prepended(wrapper.value, AppendSessions(sessionsData, index + 1, dict))

AppendSessions(sessionsData, index, dict) ==
    IF index > Len(sessionsData) THEN Returned(<<>>)
    ELSE AppendAfter(SessionWrapper(sessionsData, index, dict), sessionsData, index, dict)

\* The container after the forEach, whether it threw, and whether
\* setupTooltips, the last statement, was reached.
RenderResult(appended) ==
    [threw |-> appended.threw,
     content |-> [message |-> "none", sessions |-> appended.value],
     wired |-> ~appended.threw]

\* renderCallSessions: an empty list gives the no-data message and returns
\* before setupTooltips.
renderCallSessions(sessionsData, dict) ==
    IF Len(sessionsData) = 0
    THEN [threw |-> FALSE, content |-> NoDataContent, wired |-> FALSE]
    ELSE RenderResult(AppendSessions(sessionsData, 1, dict))

\* The HTML of the text cells of the container, in document order.
RECURSIVE DocumentHtml(_)
DocumentHtml(sessions) ==
    IF sessions = <<>> THEN <<>>
    ELSE Head(sessions).rows[1].html \o Head(sessions).rows[2].html
         \o Head(sessions).rows[3].html \o DocumentHtml(Tail(sessions))

\* document.querySelectorAll('.variable-text'): each span is named by the
\* position of its opening tag in the document.
VariableSpans(c) ==
    LET html == DocumentHtml(c.sessions)
    IN {k \in 1..Len(html) : html[k].t = "open" /\ html[k].cls = "variable-text"}

----------------------------------------------------------------------------
(* Module 3.2: the two-tier navigation.  The call data is JNull or an      *)
(* object whose categories are listed in key order, each [key, records].   *)
(* A child of #phase-list-container is [kind, key, category, href, active] *)
(* with kind "all", "cat", "divider" or "jump".                            *)

CallData(categories) == [type |-> "object", categories |-> categories]
ParameterData(entries) == [type |-> "object", entries |-> entries]

\* data[categoryKey]
RecordsOf(data, categoryKey) ==
    LET n == CHOOSE n \in 1..Len(data.categories) : data.categories[n].key = categoryKey
    IN data.categories[n].records

\* [...new Set(records.map(item => item.category))]: the distinct categories
\* in the order of their first occurrence.
RECURSIVE UniqueCategories(_, _)
UniqueCategories(records, seen) ==
    IF records = <<>> THEN <<>>
    ELSE IF Head(records).category \in seen
         THEN UniqueCategories(Tail(records), seen)
         ELSE <<Head(records).category>>
              \o UniqueCategories(Tail(records), seen \cup {Head(records).category})

\* data[categoryKey].filter(item => item.category === category)
FilterByCategory(records, category) ==
    SelectSeq(records, LAMBDA item : item.category = category)

NavEntry(kind, key, category, href, active) ==
    [kind |-> kind, key |-> key, category |-> category, href |-> href, active |-> active]

AllCallsLink(categoryKey) == NavEntry("all", categoryKey, <<>>, <<>>, TRUE)
CategoryLink(categoryKey, category) == NavEntry("cat", categoryKey, category, <<>>, FALSE)
Divider == NavEntry("divider", "", <<>>, <<>>, FALSE)
JumpLink(title) == NavEntry("jump", "", <<>>, <<"#">> \o SessionId(title), FALSE)

IsNavLinkButton(entry) == entry.kind \in {"all", "cat", "jump"}

renderSubNavigationLinks(list, sessionsData) ==
    SelectSeq(list, LAMBDA e : e.kind \notin {"jump", "divider"})
    \o <<Divider>>
    \o [i \in 1..Len(sessionsData) |-> JumpLink(sessionsData[i].title)]

\* The click handler without the loop that removes 'active'.
ActivateAlso(list, clicked) ==
    [i \in 1..Len(list) |->
        IF i = clicked THEN [list[i] EXCEPT !.active = TRUE] ELSE list[i]]

\* document.querySelectorAll('.nav-link-button').forEach(remove 'active'),
\* then clicked.classList.add('active')
ActivateOnly(list, clicked) ==
    [i \in 1..Len(list) |->
        IF i = clicked THEN [list[i] EXCEPT !.active = TRUE]
        ELSE IF IsNavLinkButton(list[i]) THEN [list[i] EXCEPT !.active = FALSE]
        ELSE list[i]]

\* A render pass r followed by renderSubNavigationLinks, which an exception of
\* the render pass skips.
LinkedAfter(r, list, sessionsData) ==
    [threw |-> r.threw, content |-> r.content, wired |-> r.wired,
     list |-> IF r.threw THEN list ELSE renderSubNavigationLinks(list, sessionsData)]

RenderAndLink(list, sessionsData, dict) ==
    LinkedAfter(renderCallSessions(sessionsData, dict), list, sessionsData)

\* The ALL link, active, and one link per distinct category.
CategoryLinks(categoryKey, unique) ==
    <<AllCallsLink(categoryKey)>>
    \o [i \in 1..Len(unique) |-> CategoryLink(categoryKey, unique[i])]

renderNavigationAndContent(categoryKey, data, dict) ==
    RenderAndLink(CategoryLinks(categoryKey,
                                UniqueCategories(RecordsOf(data, categoryKey), {})),
                  RecordsOf(data, categoryKey), dict)

\* The category buttons setupNavigation creates, none active yet.
CategoryButtons(data) ==
    [i \in 1..Len(data.categories) |-> [key |-> data.categories[i].key, active |-> FALSE]]

\* forEach(btn => btn.classList.remove('active')); button.classList.add('active')
ActivateButton(buttons, clicked) ==
    [i \in 1..Len(buttons) |-> [buttons[i] EXCEPT !.active = (i = clicked)]]

\* document.getElementById(targetId): the first element with that id, or 0.
GetSessionById(c, targetId) ==
    LET hits == {i \in 1..Len(c.sessions) : c.sessions[i].id = targetId}
    IN IF hits = {} THEN 0 ELSE CHOOSE i \in hits : \A j \in hits : i <= j

----------------------------------------------------------------------------
(* The map view: the node types and the checkboxes of their filters. *)

nodeTypeNames ==
    << "PreArrival", "Arrival", "Arr_Taxiway", "Gate_Inbound", "Gate_Outbound",
       "Dep_Taxiway", "Departure", "PostDeparture", "More_OnSky", "More_OnGround" >>

NodeTypes == {nodeTypeNames[i] : i \in 1..Len(nodeTypeNames)}

\* The two group checkboxes and the types each of them sets.
FilterGroups ==
    { [name |-> "arrivalGroup",
       types |-> {"PreArrival", "Arrival", "Arr_Taxiway", "Gate_Inbound"}],
      [name |-> "departureGroup",
       types |-> {"Gate_Outbound", "Dep_Taxiway", "Departure", "PostDeparture"}] }

\* `filter_${type}`
FilterId(name) == <<"filter_", name>>

\* The script up to the call of createNodeTypeFilters: every type is visible
\* and no checkbox exists.
MapScriptStart ==
    /\ mapPc = "script"
    /\ visibleNodeTypes = [type \in NodeTypes |-> TRUE]
    /\ filterChecked = [id \in {} |-> TRUE]

\* The forEach of a group listener setting every flag.
SetVisibleAll(flags, types, checked) == [type \in DOMAIN flags |-> checked]

\* types.forEach(type => visibleNodeTypes[type] = checked)
SetVisible(flags, types, checked) ==
    [type \in DOMAIN flags |-> IF type \in types THEN checked ELSE flags[type]]

\* types.forEach(type => document.getElementById(`filter_${type}`).checked = checked)
SetChecked(boxes, types, checked) ==
    [id \in DOMAIN boxes |->
        IF \E type \in types : id = FilterId(type) THEN checked ELSE boxes[id]]

\* The user clicks a checkbox: it takes the other state, then 'change' is sent.
Clicked(boxes, name) == [boxes EXCEPT ![FilterId(name)] = ~@]

----------------------------------------------------------------------------
(* The data files the model serves. *)

PlainCommand == Command(JUndefined, JStr(<<"T">>), JBool(FALSE), JArray(<<>>))
AutoCommand == Command(JUndefined, JStr(<<"T">>), JBool(TRUE), JArray(<<>>))
GuideCommand == Command(JStr(<<"T">>), JUndefined, JBool(FALSE), JUndefined)

CallRecord(title, category, initialCall, atcCall, feedbackCall, initialCmd, feedbackCmd) ==
    [title |-> title, category |-> category, initialCall |-> initialCall,
     atcCall |-> atcCall, feedbackCall |-> feedbackCall,
     initialCommand |-> initialCmd, feedbackCommand |-> feedbackCmd]

RecordA ==
    CallRecord(<<"A">>, <<"G">>, JStr(<<"{", "q", "}">>), JStr(<<"a">>), JNull,
               PlainCommand, AutoCommand)
RecordB ==
    CallRecord(<<"B">>, <<"T">>, JStr(<<"{", "7", "}">>), JStr(<<"{", "n", "}">>),
               JStr(<<>>), GuideCommand, PlainCommand)
RecordNoCommand ==
    CallRecord(<<"A", " ", "b">>, <<"G">>, JStr(<<"a">>), JNull, JStr(<<"Q">>),
               JNull, PlainCommand)

RecordPool == {RecordA, RecordB, RecordNoCommand}

ParameterEntries ==
    << [name |-> <<"Q">>, description |-> <<"n", " ">>, hasValues |-> TRUE,
        values |-> << <<"7">> >>] >>

SeqsUpTo(S, n) == UNION {[1..k -> S] : k \in 0..n}

ArrivalKey == "allArrivalCall"
DepartureKey == "allDepartureCall"

CallFiles ==
    {JNull, CallData(<<>>)}
    \cup {CallData(<<[key |-> ArrivalKey, records |-> arrivals],
                     [key |-> DepartureKey, records |-> <<RecordB, RecordA>>]>>) :
            arrivals \in SeqsUpTo(RecordPool, MaxRecords)}

ParameterDictionary == ParameterData(ParameterEntries)

ParameterFiles == {JNull, ParameterDictionary}

----------------------------------------------------------------------------
(* Module 1.1 and 1.3: fetchData and initializeApp. *)

Fetches == {1, 2}
File(i) == IF i = 1 THEN callFile ELSE paramFile

Pending == [state |-> "pending", value |-> JUndefined]
Fulfilled(v) == [state |-> "fulfilled", value |-> v]
Rejected == [state |-> "rejected", value |-> JUndefined]

\* fetchData without its catch block: the exception rejects the promise.
FetchDataRethrow == Rejected

\* What an exception raised inside the try block of fetchData leads to: the
\* catch block logs it and returns null.
FetchDataCatch == Fulfilled(JNull)

\* Promise.all: fulfilled when every promise is, rejected as soon as one is.
PromiseAllSettled(promises) ==
    \/ \A i \in Fetches : promises[i].state = "fulfilled"
    \/ \E i \in Fetches : promises[i].state = "rejected"

\* The check of initializeApp with && in place of ||.
DataMissingBoth(callData, commandParameterData) ==
    ~Truthy(callData) /\ ~Truthy(commandParameterData)

\* The check of initializeApp without its second operand.
DataMissingCallOnly(callData, commandParameterData) == ~Truthy(callData)

\* !callData || !commandParameterData
DataMissing(callData, commandParameterData) ==
    ~Truthy(callData) \/ ~Truthy(commandParameterData)

Init ==
    /\ callFile \in CallFiles
    /\ paramFile \in ParameterFiles
    /\ appPc = "notStarted"
    /\ fetchPc = [i \in Fetches |-> "notCalled"]
    /\ fetchOutcome = [i \in Fetches |-> "none"]
    /\ fetchPromise = [i \in Fetches |-> Pending]
    /\ renderThrew = FALSE
    /\ content = EmptyContent
    /\ filterButtons = <<>>
    /\ phaseList = <<>>
    /\ tooltipsWired = FALSE
    /\ tooltipTimeout = 0
    /\ visibleSpans = {}
    /\ highlighted = {}
    /\ highlightTimers = <<>>
    /\ popups = <<>>
    /\ MapScriptStart

domVars == <<content, filterButtons, phaseList, tooltipsWired, tooltipTimeout,
             visibleSpans, highlighted, highlightTimers, popups>>

\* DOMContentLoaded: initializeApp calls fetchData twice, each running to its
\* first await, and then awaits Promise.all.
DOMContentLoaded ==
    /\ appPc = "notStarted"
    /\ appPc' = "awaitAll"
    /\ fetchPc' = [i \in Fetches |-> "awaitFetch"]
    /\ UNCHANGED <<mapVars, callFile, paramFile, fetchOutcome, fetchPromise, renderThrew, domVars>>

\* await fetch(url) settles: it rejects, or gives a response with ok false or true.
FetchSettles(i) ==
    /\ fetchPc[i] = "awaitFetch"
    /\ \E outcome \in {"fetchRejected", "notOk", "ok"} :
         IF outcome = "ok"
         THEN /\ fetchPc' = [fetchPc EXCEPT ![i] = "awaitJson"]
              /\ UNCHANGED <<fetchOutcome, fetchPromise>>
         ELSE /\ fetchPc' = [fetchPc EXCEPT ![i] = "returned"]
              /\ fetchOutcome' = [fetchOutcome EXCEPT ![i] = outcome]
              /\ fetchPromise' = [fetchPromise EXCEPT ![i] = FetchDataCatch]
    /\ UNCHANGED <<mapVars, callFile, paramFile, appPc, renderThrew, domVars>>

\* await response.json() settles: it rejects, or gives the parsed file.
JsonSettles(i) ==
    /\ fetchPc[i] = "awaitJson"
    /\ fetchPc' = [fetchPc EXCEPT ![i] = "returned"]
    /\ \E outcome \in {"jsonRejected", "success"} :
         /\ fetchOutcome' = [fetchOutcome EXCEPT ![i] = outcome]
         /\ fetchPromise' = [fetchPromise EXCEPT ![i] =
                IF outcome = "success" THEN Fulfilled(File(i)) ELSE FetchDataCatch]
    /\ UNCHANGED <<mapVars, callFile, paramFile, appPc, renderThrew, domVars>>

\* What a render pass does to the state that hangs on the elements of the
\* container: they leave the document, with their classes and with the
\* timers that still point at them.
Rerender(r) ==
    /\ content' = r.content
    /\ phaseList' = r.list
    /\ tooltipsWired' = r.wired
    /\ renderThrew' = r.threw
    /\ visibleSpans' = {}
    /\ highlighted' = {}
    /\ tooltipTimeout' = IF tooltipTimeout = 0 THEN 0 ELSE -1
    /\ highlightTimers' = [i \in 1..Len(highlightTimers) |-> 0]

\* setupNavigation: the category buttons, the first of them active, and the
\* first category rendered.  Object.keys(data) throws when data is null.
SetupNavigation(data, dict) ==
    IF data.type # "object" \/ Len(data.categories) = 0
    THEN /\ filterButtons' = <<>>
         /\ renderThrew' = (data.type # "object")
         /\ UNCHANGED <<content, phaseList, tooltipsWired, tooltipTimeout,
                        visibleSpans, highlighted, highlightTimers, popups>>
    ELSE /\ filterButtons' = ActivateButton(CategoryButtons(data), 1)
         /\ UNCHANGED popups
         /\ Rerender(renderNavigationAndContent(data.categories[1].key, data, dict))

\* initializeApp resumes after Promise.all.
InitializeAppResumes ==
    /\ appPc = "awaitAll"
    /\ PromiseAllSettled(fetchPromise)
    /\ IF \E i \in Fetches : fetchPromise[i].state = "rejected"
       THEN /\ appPc' = "rejected"
            /\ UNCHANGED <<renderThrew, domVars>>
       ELSE IF DataMissing(fetchPromise[1].value, fetchPromise[2].value)
       THEN /\ appPc' = "error"
            /\ content' = ErrorContent
            /\ UNCHANGED <<renderThrew, filterButtons, phaseList, tooltipsWired,
                           tooltipTimeout, visibleSpans, highlighted, highlightTimers,
                           popups>>
       ELSE /\ appPc' = "setupNavigation"
            /\ SetupNavigation(fetchPromise[1].value, fetchPromise[2].value)
    /\ UNCHANGED <<mapVars, callFile, paramFile, fetchPc, fetchOutcome, fetchPromise>>

\* The arguments setupNavigation was called with, which every click handler
\* keeps in its closure.
NavData == fetchPromise[1].value
NavDict == fetchPromise[2].value

fetchVars == <<callFile, paramFile, appPc, fetchPc, fetchOutcome, fetchPromise>>

\* What the handlers of the navigation, the jump links and the tooltips never
\* touch: the files, the startup, the popups of document.body and the map.
fixedVars == <<fetchVars, popups, mapVars>>

\* Click on a category button.
CategoryClick(b) ==
    /\ b \in 1..Len(filterButtons)
    /\ filterButtons' = ActivateButton(filterButtons, b)
    /\ Rerender(renderNavigationAndContent(filterButtons[b].key, NavData, NavDict))
    /\ UNCHANGED fixedVars

\* Click on the ALL link of the phase list.
AllCallsClick(l) ==
    /\ l \in 1..Len(phaseList)
    /\ phaseList[l].kind = "all"
    /\ Rerender(RenderAndLink(ActivateOnly(phaseList, l),
                              RecordsOf(NavData, phaseList[l].key), NavDict))
    /\ UNCHANGED <<fixedVars, filterButtons>>

\* Click on a sub-category link of the phase list.
SubCategoryClick(l) ==
    /\ l \in 1..Len(phaseList)
    /\ phaseList[l].kind = "cat"
    /\ Rerender(RenderAndLink(ActivateOnly(phaseList, l),
                              FilterByCategory(RecordsOf(NavData, phaseList[l].key),
                                               phaseList[l].category),
                              NavDict))
    /\ UNCHANGED <<fixedVars, filterButtons>>

----------------------------------------------------------------------------
(* highlightSelectedCall and the jump links. *)

\* highlightSelectedCall without the loop that removes the class.
ClearHighlightsSkipped(marked) == marked

\* querySelectorAll('.call-session-wrapper.highlighted').forEach(remove)
ClearHighlights(marked) == {}

\* highlightSelectedCall without its setTimeout.
StartClearTimerSkipped(timers, target) == timers

\* The timers after highlightSelectedCall has marked `target`.
StartClearTimer(timers, target) == Append(timers, target)

\* Click on a jump link: nothing when no element bears the target id.
JumpLinkClick(l) ==
    /\ l \in 1..Len(phaseList)
    /\ phaseList[l].kind = "jump"
    /\ Len(highlightTimers) < MaxHighlightTimers
    /\ LET targetId == Tail(phaseList[l].href)
           target == GetSessionById(content, targetId)
       IN IF target = 0
          THEN UNCHANGED <<highlighted, highlightTimers>>
          ELSE /\ highlighted' = ClearHighlights(highlighted) \cup {target}
               /\ highlightTimers' = StartClearTimer(highlightTimers, target)
    /\ UNCHANGED <<fixedVars, renderThrew, content, filterButtons, phaseList,
                   tooltipsWired, tooltipTimeout, visibleSpans>>

\* The oldest highlight timer fires (all have the same delay).
HighlightTimerFires ==
    /\ highlightTimers # <<>>
    /\ highlighted' = highlighted \ {Head(highlightTimers)}
    /\ highlightTimers' = Tail(highlightTimers)
    /\ UNCHANGED <<fixedVars, renderThrew, content, filterButtons, phaseList,
                   tooltipsWired, tooltipTimeout, visibleSpans>>

----------------------------------------------------------------------------
(* Module 3.1: the tooltips. *)

\* showTooltip without the loop that hides the other spans.
showTooltipKeepingOthers(visible, element) ==
    IF element = -1 THEN visible ELSE visible \cup {element}

\* showTooltip(element): -1 is an element that has left the document.
showTooltip(visible, element) ==
    IF element = -1 THEN {} ELSE {element}

hideTooltip(visible, element) == visible \ {element}

MouseEnter(n) ==
    /\ tooltipsWired
    /\ n \in VariableSpans(content)
    /\ tooltipTimeout' = n
    /\ UNCHANGED <<fixedVars, renderThrew, content, filterButtons, phaseList,
                   tooltipsWired, visibleSpans, highlighted, highlightTimers>>

MouseLeave(n) ==
    /\ tooltipsWired
    /\ n \in VariableSpans(content)
    /\ tooltipTimeout' = 0
    /\ visibleSpans' = hideTooltip(visibleSpans, n)
    /\ UNCHANGED <<fixedVars, renderThrew, content, filterButtons, phaseList,
                   tooltipsWired, highlighted, highlightTimers>>

TooltipTimerFires ==
    /\ tooltipTimeout # 0
    /\ visibleSpans' = showTooltip(visibleSpans, tooltipTimeout)
    /\ tooltipTimeout' = 0
    /\ UNCHANGED <<fixedVars, renderThrew, content, filterButtons, phaseList,
                   tooltipsWired, highlighted, highlightTimers>>

----------------------------------------------------------------------------

Next ==
    \/ DOMContentLoaded
    \/ \E i \in Fetches : FetchSettles(i)
    \/ \E i \in Fetches : JsonSettles(i)
    \/ InitializeAppResumes
    \/ \E b \in 1..Len(filterButtons) : CategoryClick(b)
    \/ \E l \in 1..Len(phaseList) : AllCallsClick(l)
    \/ \E l \in 1..Len(phaseList) : SubCategoryClick(l)
    \/ \E l \in 1..Len(phaseList) : JumpLinkClick(l)
    \/ HighlightTimerFires
    \/ \E n \in VariableSpans(content) : MouseEnter(n)
    \/ \E n \in VariableSpans(content) : MouseLeave(n)
    \/ TooltipTimerFires

Spec == Init /\ [][Next]_vars

\* The page without the mouse: startup, the clicks of the navigation and the
\* highlight timers.  The event loop runs a timer whose delay has passed.
HighlightNext ==
    \/ DOMContentLoaded
    \/ \E i \in Fetches : FetchSettles(i)
    \/ \E i \in Fetches : JsonSettles(i)
    \/ InitializeAppResumes
    \/ \E b \in 1..Len(filterButtons) : CategoryClick(b)
    \/ \E l \in 1..Len(phaseList) : AllCallsClick(l)
    \/ \E l \in 1..Len(phaseList) : SubCategoryClick(l)
    \/ \E l \in 1..Len(phaseList) : JumpLinkClick(l)
    \/ HighlightTimerFires

HighlightSpec == Init /\ [][HighlightNext]_vars /\ WF_vars(HighlightTimerFires)

----------------------------------------------------------------------------
(* The renderer on its own: the page holds one record, with every          *)
(* combination of null, empty and filled fields, renderCallSessions        *)
(* renders it, and the command buttons are clicked and the popups          *)
(* dismissed.                                                              *)

RenderTexts == {JNull, JStr(<<>>), JStr(<<"{", "q", "}">>)}

RenderCommands ==
    {JNull, PlainCommand, AutoCommand, GuideCommand,
     Command(JUndefined, JStr(<<>>), JBool(FALSE), JArray(<<>>)),
     Command(JStr(<<"T">>), JUndefined, JBool(TRUE), JUndefined),
     Command(JStr(<<"A", "T", "C">>), JStr(<<"T">>), JBool(FALSE), JArray(<<>>)),
     Command(JStr(<<"B">>), JStr(<<"T">>), JBool(FALSE), JUndefined)}

RenderRecords ==
    {CallRecord(<<"A">>, <<"G">>, initialCall, atcCall, feedbackCall,
                initialCommand, feedbackCommand) :
        initialCall \in RenderTexts, atcCall \in RenderTexts,
        feedbackCall \in RenderTexts,
        initialCommand \in RenderCommands, feedbackCommand \in RenderCommands}

RenderInit ==
    /\ callFile \in {CallData(<<[key |-> ArrivalKey, records |-> <<r>>]>>) :
                        r \in RenderRecords}
    /\ paramFile = ParameterDictionary
    /\ appPc = "render"
    /\ fetchPc = [i \in Fetches |-> "returned"]
    /\ fetchOutcome = [i \in Fetches |-> "success"]
    /\ fetchPromise = [i \in Fetches |-> Fulfilled(File(i))]
    /\ renderThrew = FALSE
    /\ content = EmptyContent
    /\ filterButtons = <<>>
    /\ phaseList = <<>>
    /\ tooltipsWired = FALSE
    /\ tooltipTimeout = 0
    /\ visibleSpans = {}
    /\ highlighted = {}
    /\ highlightTimers = <<>>
    /\ popups = <<>>
    /\ MapScriptStart

\* The container after the render pass r.
RenderPass(r) ==
    /\ content' = r.content
    /\ renderThrew' = r.threw
    /\ tooltipsWired' = r.wired

RenderRecord ==
    /\ appPc = "render"
    /\ appPc' = "rendered"
    /\ RenderPass(renderCallSessions(RecordsOf(NavData, ArrivalKey), NavDict))
    /\ UNCHANGED <<mapVars, callFile, paramFile, fetchPc, fetchOutcome, fetchPromise,
                   filterButtons, phaseList, tooltipTimeout, visibleSpans, highlighted,
                   highlightTimers, popups>>

\* Click on the command button of row r of session s.
CommandButtonClick(s, r) ==
    /\ s \in 1..Len(content.sessions)
    /\ r \in 1..Len(content.sessions[s].rows)
    /\ content.sessions[s].rows[r].control.kind = "button"
    /\ Len(popups) < MaxPopups
    /\ popups' = ButtonListener(popups, content.sessions[s].rows[r], NavDict)
    /\ UNCHANGED <<mapVars, fetchVars, renderThrew, content, filterButtons, phaseList,
                   tooltipsWired, tooltipTimeout, visibleSpans, highlighted,
                   highlightTimers>>

\* Click on the title cell of session s.
TitleClick(s) ==
    /\ s \in 1..Len(content.sessions)
    /\ Len(popups) < MaxPopups
    /\ popups' = Append(popups, showDescriptionPopup(content.sessions[s].title))
    /\ UNCHANGED <<mapVars, fetchVars, renderThrew, content, filterButtons, phaseList,
                   tooltipsWired, tooltipTimeout, visibleSpans, highlighted,
                   highlightTimers>>

\* Click on the OK button of popup p, or on its overlay.
PopupDismiss(p) ==
    /\ p \in 1..Len(popups)
    /\ popups' = closePopup(popups, p)
    /\ UNCHANGED <<mapVars, fetchVars, renderThrew, content, filterButtons, phaseList,
                   tooltipsWired, tooltipTimeout, visibleSpans, highlighted,
                   highlightTimers>>

RenderNext ==
    \/ RenderRecord
    \/ \E s \in 1..Len(content.sessions) : \E r \in 1..3 : CommandButtonClick(s, r)
    \/ \E s \in 1..Len(content.sessions) : TitleClick(s)
    \/ \E p \in 1..Len(popups) : PopupDismiss(p)

SpecRender == RenderInit /\ [][RenderNext]_vars

----------------------------------------------------------------------------
(* The formatter on its own: the page holds one record whose initial call  *)
(* is a placeholder, alone or followed by a parameter name and a second    *)
(* placeholder, the dictionary holds up to MaxEntries parameters, and      *)
(* renderCallSessions formats the record.                                  *)

InnerChars == {"Q", "q", "N", "7", " ", "-"}

Placeholder(inner) == <<"{">> \o inner \o <<"}">>

FormatSuffixes == {<<>>, <<" ", "Q">> \o Placeholder(<<"q">>)}

FormatTexts ==
    {Placeholder(inner) \o suffix :
        inner \in SeqsUpTo(InnerChars, MaxInner), suffix \in FormatSuffixes}

\* The parameters a dictionary is made of: a name matched by its letter, a
\* value that holds the name and a literal, a value that is the name of
\* another parameter, a value and a name with punctuation, descriptions with
\* whitespace around them.
ParameterPool ==
    { ParameterEntries[1],
      [name |-> <<"N">>, description |-> <<"a">>, hasValues |-> TRUE,
       values |-> << <<"N", " ", "7">>, <<"q">> >>],
      [name |-> <<"T">>, description |-> <<" ", "b">>, hasValues |-> TRUE,
       values |-> << <<"-">> >>],
      [name |-> <<"Q", "-", "7">>, description |-> <<"t">>, hasValues |-> TRUE,
       values |-> <<>>] }

\* The keys of an object are distinct.
FormatDictionaries ==
    {ParameterData(d) : d \in {e \in SeqsUpTo(ParameterPool, MaxEntries) :
                                  \A i, j \in 1..Len(e) : e[i].name = e[j].name => i = j}}

FormatRecord(text) ==
    CallRecord(<<"A">>, <<"G">>, JStr(text), JNull, JNull, PlainCommand, PlainCommand)

FormatInit ==
    /\ callFile \in {CallData(<<[key |-> ArrivalKey, records |-> <<FormatRecord(text)>>]>>) :
                        text \in FormatTexts}
    /\ paramFile \in FormatDictionaries
    /\ appPc = "render"
    /\ fetchPc = [i \in Fetches |-> "returned"]
    /\ fetchOutcome = [i \in Fetches |-> "success"]
    /\ fetchPromise = [i \in Fetches |-> Fulfilled(File(i))]
    /\ renderThrew = FALSE
    /\ content = EmptyContent
    /\ filterButtons = <<>>
    /\ phaseList = <<>>
    /\ tooltipsWired = FALSE
    /\ tooltipTimeout = 0
    /\ visibleSpans = {}
    /\ highlighted = {}
    /\ highlightTimers = <<>>
    /\ popups = <<>>
    /\ MapScriptStart

FormatNext == RenderRecord

SpecFormat == FormatInit /\ [][FormatNext]_vars

----------------------------------------------------------------------------
(* The formatter on any text: braces that open and never close, that close *)
(* and never opened, that nest, and names that stand outside braces.       *)

MarkupChars == {"{", "}", "Q", "q", "-", "7"}

\* A text alone and after a placeholder.
MarkupTexts ==
    {prefix \o text : prefix \in {<<>>, Placeholder(<<"q", "7">>) \o <<" ">>},
                      text \in SeqsUpTo(MarkupChars, MaxText)}

MarkupInit ==
    /\ callFile \in {CallData(<<[key |-> ArrivalKey, records |-> <<FormatRecord(text)>>]>>) :
                        text \in MarkupTexts}
    /\ paramFile \in FormatDictionaries
    /\ appPc = "render"
    /\ fetchPc = [i \in Fetches |-> "returned"]
    /\ fetchOutcome = [i \in Fetches |-> "success"]
    /\ fetchPromise = [i \in Fetches |-> Fulfilled(File(i))]
    /\ renderThrew = FALSE
    /\ content = EmptyContent
    /\ filterButtons = <<>>
    /\ phaseList = <<>>
    /\ tooltipsWired = FALSE
    /\ tooltipTimeout = 0
    /\ visibleSpans = {}
    /\ highlighted = {}
    /\ highlightTimers = <<>>
    /\ popups = <<>>
    /\ MapScriptStart

SpecMarkup == MarkupInit /\ [][RenderRecord]_vars

----------------------------------------------------------------------------
(* The map view on its own: the filters are created, or the page has no    *)
(* container for them, and the checkboxes are clicked.                     *)

\* createNodeTypeFilters: nothing without the container, else the twelve
\* checkboxes, all checked, and their listeners.
createNodeTypeFilters(container) ==
    /\ mapPc = "script"
    /\ IF container
       THEN /\ filterChecked'
               = [id \in {FilterId(name) :
                            name \in NodeTypes \cup {g.name : g \in FilterGroups}} |-> TRUE]
            /\ mapPc' = "ready"
       ELSE /\ mapPc' = "noContainer"
            /\ UNCHANGED filterChecked
    /\ UNCHANGED <<fetchVars, domVars, renderThrew, visibleNodeTypes>>

\* 'change' of the checkbox of a node type.
TypeFilterChange(type) ==
    /\ mapPc = "ready"
    /\ filterChecked' = Clicked(filterChecked, type)
    /\ visibleNodeTypes' = [visibleNodeTypes EXCEPT ![type] = filterChecked'[FilterId(type)]]
    /\ UNCHANGED <<fetchVars, domVars, renderThrew, mapPc>>

\* 'change' of the checkbox of a group.
GroupFilterChange(group) ==
    /\ mapPc = "ready"
    /\ LET checked == Clicked(filterChecked, group.name)[FilterId(group.name)]
       IN /\ visibleNodeTypes' = SetVisible(visibleNodeTypes, group.types, checked)
          /\ filterChecked'
             = SetChecked(Clicked(filterChecked, group.name), group.types, checked)
    /\ UNCHANGED <<fetchVars, domVars, renderThrew, mapPc>>

MapInit ==
    /\ callFile = JNull
    /\ paramFile = JNull
    /\ appPc = "notStarted"
    /\ fetchPc = [i \in Fetches |-> "notCalled"]
    /\ fetchOutcome = [i \in Fetches |-> "none"]
    /\ fetchPromise = [i \in Fetches |-> Pending]
    /\ renderThrew = FALSE
    /\ content = EmptyContent
    /\ filterButtons = <<>>
    /\ phaseList = <<>>
    /\ tooltipsWired = FALSE
    /\ tooltipTimeout = 0
    /\ visibleSpans = {}
    /\ highlighted = {}
    /\ highlightTimers = <<>>
    /\ popups = <<>>
    /\ MapScriptStart

MapNext ==
    \/ \E container \in BOOLEAN : createNodeTypeFilters(container)
    \/ \E type \in NodeTypes : TypeFilterChange(type)
    \/ \E group \in FilterGroups : GroupFilterChange(group)

SpecMap == MapInit /\ [][MapNext]_vars

----------------------------------------------------------------------------
(* The details popup on its own: the page holds one record whose initial   *)
(* command lists parameters by name, the dictionary is any of those of the *)
(* formatter, and titles and command buttons are clicked and popups        *)
(* dismissed.                                                              *)

\* The names a command refers to: a key as it is, a key in another case and
\* with whitespace around it, in another case with its punctuation, without
\* its punctuation, and a name no dictionary has.
ParameterNames ==
    { <<"Q">>, <<" ", "q">>, <<"q", "-", "7">>, <<"Q", "7">>, <<"B">> }

PopupInit ==
    /\ callFile \in {CallData(<<[key |-> ArrivalKey,
                                  records |-> <<CallRecord(<<"A">>, <<"G">>, JStr(<<>>),
                                       JNull, JNull, WithParameters(PlainCommand, names),
                                       AutoCommand)>>]>>) :
                        names \in SeqsUpTo(ParameterNames, MaxParameters)}
    /\ paramFile \in FormatDictionaries
    /\ appPc = "render"
    /\ fetchPc = [i \in Fetches |-> "returned"]
    /\ fetchOutcome = [i \in Fetches |-> "success"]
    /\ fetchPromise = [i \in Fetches |-> Fulfilled(File(i))]
    /\ renderThrew = FALSE
    /\ content = EmptyContent
    /\ filterButtons = <<>>
    /\ phaseList = <<>>
    /\ tooltipsWired = FALSE
    /\ tooltipTimeout = 0
    /\ visibleSpans = {}
    /\ highlighted = {}
    /\ highlightTimers = <<>>
    /\ popups = <<>>
    /\ MapScriptStart

SpecPopup == PopupInit /\ [][RenderNext]_vars

----------------------------------------------------------------------------
(* Startup. *)

FailureOutcomes == {"fetchRejected", "notOk", "jsonRejected"}

\* C1: initializeApp has called both fetchData before it awaits either, and
\* setupNavigation has been called only when both calls have returned and
\* both gave data that is not null.
C1_RenderAfterBothFetches ==
    /\ appPc # "notStarted" => \A i \in Fetches : fetchPc[i] # "notCalled"
    /\ \/ appPc = "setupNavigation"
       \/ filterButtons # <<>>
       \/ phaseList # <<>>
       \/ content.sessions # <<>>
       => \A i \in Fetches :
            /\ fetchPc[i] = "returned"
            /\ fetchPromise[i].state = "fulfilled"
            /\ fetchPromise[i].value # JNull

\* setupNavigation has rendered the first category of the call data.
C1_Witness ==
    /\ appPc = "setupNavigation"
    /\ content.sessions # <<>>
    /\ \A i \in Fetches : fetchOutcome[i] = "success"

\* C2: when a fetch has failed, setupNavigation is not called and nothing of
\* the navigation or the sessions is in the page, the failed call is not
\* started again, and initializeApp ends by showing the error message.
C2_FailureShowsError ==
    (\E i \in Fetches : fetchOutcome[i] \in FailureOutcomes)
    => /\ appPc \in {"awaitAll", "error"}
       /\ appPc = "error" => content = ErrorContent
       /\ filterButtons = <<>>
       /\ phaseList = <<>>
       /\ content.sessions = <<>>
       /\ \A i \in Fetches : fetchOutcome[i] \in FailureOutcomes => fetchPc[i] = "returned"

\* The parameter fetch failed, the call-data fetch gave data, and the page
\* shows the error message.
C2_Witness ==
    /\ fetchOutcome[2] \in FailureOutcomes
    /\ fetchOutcome[1] = "success"
    /\ fetchPromise[1].value # JNull
    /\ appPc = "error"
    /\ content = ErrorContent

\* C3: the promise of fetchData is never rejected; once the call has
\* returned it is fulfilled, with null after each of the three failures and
\* with the parsed file after a success.
C3_FetchDataNeverRejects ==
    \A i \in Fetches :
        /\ fetchPromise[i].state # "rejected"
        /\ (fetchPc[i] = "returned") = (fetchOutcome[i] # "none")
        /\ fetchPc[i] = "returned" => fetchPromise[i].state = "fulfilled"
        /\ fetchOutcome[i] \in FailureOutcomes => fetchPromise[i].value = JNull
        /\ fetchOutcome[i] = "success" => fetchPromise[i].value = File(i)

\* All four outcomes have happened: response.json() rejected for one call
\* and succeeded with data for the other.
C3_Witness ==
    /\ fetchOutcome[1] = "jsonRejected"
    /\ fetchPromise[1] = Fulfilled(JNull)
    /\ fetchOutcome[2] = "success"
    /\ fetchPromise[2] = Fulfilled(ParameterDictionary)

----------------------------------------------------------------------------
(* Tooltips and highlight. *)

\* C4: at most one variable span of the document is visible.
C4_AtMostOneTooltip == Cardinality(visibleSpans) <= 1

\* A tooltip is visible while the show-timer of another span is pending.
C4_Witness ==
    /\ Cardinality(visibleSpans) = 1
    /\ tooltipTimeout \in VariableSpans(content) \ visibleSpans

\* C5: at most one session wrapper of the document is highlighted.
C5_AtMostOneHighlighted == Cardinality(highlighted) <= 1

\* A session is highlighted while the clear-timer of another session, which
\* was highlighted before it, is still pending.
C5_Witness ==
    /\ Cardinality(highlighted) = 1
    /\ Len(highlightTimers) = 2
    /\ highlightTimers[1] > 0
    /\ highlightTimers[1] \notin highlighted
    /\ highlightTimers[2] \in highlighted

SessionPositions == 1..(MaxRecords + 2)

\* C6: a highlighted session has a pending clear-timer of its own, and it
\* loses the highlight when the pending timers fire.
C6_HighlightClears ==
    /\ [](\A s \in highlighted :
            \E t \in 1..Len(highlightTimers) : highlightTimers[t] = s)
    /\ \A s \in SessionPositions : (s \in highlighted) ~> (s \notin highlighted)

\* A session is highlighted and the only pending timer is its own.
C6_Witness ==
    /\ highlighted # {}
    /\ Len(highlightTimers) = 1
    /\ highlightTimers[1] \in highlighted

----------------------------------------------------------------------------
(* Navigation. *)

ActiveButtons == {b \in 1..Len(filterButtons) : filterButtons[b].active}
ActiveLinks == {l \in 1..Len(phaseList) : phaseList[l].active}

\* C8: once setupNavigation has run on data with a category, exactly one
\* category button is active and exactly one entry of the bottom tier, the
\* ALL link or a category link, is active; a jump-link click changes neither.
C8_OneActivePerTier ==
    /\ [](appPc = "setupNavigation" /\ NavData.type = "object"
          /\ Len(NavData.categories) > 0
          => /\ Cardinality(ActiveButtons) = 1
             /\ Cardinality(ActiveLinks) = 1
             /\ \A l \in ActiveLinks : phaseList[l].kind \in {"all", "cat"})
    /\ [][\A l \in 1..Len(phaseList) :
            JumpLinkClick(l) => UNCHANGED <<filterButtons, phaseList>>]_vars

\* A sub-category link is the active entry, under the second category.
C8_Witness ==
    /\ Cardinality(ActiveButtons) = 1
    /\ filterButtons[2].active
    /\ \E l \in ActiveLinks : phaseList[l].kind = "cat"
    /\ highlighted # {}

\* The titles of the rendered sessions, and of a list of records, in order.
ShownTitles(c) == [i \in 1..Len(c.sessions) |-> c.sessions[i].title]
TitlesOf(records) == [i \in 1..Len(records) |-> records[i].title]

\* The entries of the bottom tier, without the divider and the jump links.
BottomTier(list) == SelectSeq(list, LAMBDA e : e.kind \in {"all", "cat"})

\* C7: a click on the button of category K leaves the ALL entry of K as the
\* active entry of the bottom tier, and the sessions rendered are all the
\* records of data[K], in array order.
C7_CategoryClickShowsAll ==
    [][\A b \in 1..Len(filterButtons) :
         CategoryClick(b)
         => /\ ActiveLinks' = {1}
            /\ phaseList'[1] = AllCallsLink(filterButtons[b].key)
            /\ ShownTitles(content') = TitlesOf(RecordsOf(NavData, filterButtons[b].key))
      ]_vars

\* C9: a click on the entry of sub-category C under K renders the records of
\* data[K] whose category is C, in their order; and the bottom tier offers
\* the ALL entry and one entry per distinct category of data[K].
C9_SubCategoryFilters ==
    /\ [](phaseList # <<>>
          => /\ BottomTier(phaseList)[1].kind = "all"
             /\ \A m, n \in 1..Len(BottomTier(phaseList)) :
                  m # n => BottomTier(phaseList)[m].category # BottomTier(phaseList)[n].category
             /\ {BottomTier(phaseList)[n].category : n \in 2..Len(BottomTier(phaseList))}
                = {RecordsOf(NavData, phaseList[1].key)[n].category :
                     n \in 1..Len(RecordsOf(NavData, phaseList[1].key))})
    /\ [][\A l \in 1..Len(phaseList) :
            SubCategoryClick(l)
            => ShownTitles(content')
               = TitlesOf(FilterByCategory(RecordsOf(NavData, phaseList[l].key),
                                           phaseList[l].category))
         ]_vars

----------------------------------------------------------------------------
(* The renderer. *)

RenderedRecord == RecordsOf(NavData, ArrivalKey)[1]

\* C10: whatever fields of the record are null or empty, rendering does not
\* throw and gives the three rows initial, ATC, feedback, a null text being
\* rendered as "Not available".
C10_ThreeRowsAlways ==
    appPc = "rendered"
    => /\ ~renderThrew
       /\ Len(content.sessions) = 1
       /\ [i \in 1..3 |-> content.sessions[1].rows[i].label]
          = <<"Initial Call", "ATC Call", "Feedback">>
       /\ RenderedRecord.initialCall = JNull
          => content.sessions[1].rows[1].html = Text(NotAvailableText)
       /\ RenderedRecord.atcCall = JNull
          => content.sessions[1].rows[2].html = Text(NotAvailableText)
       /\ RenderedRecord.feedbackCall = JNull
          => content.sessions[1].rows[3].html = Text(NotAvailableText)

\* A record whose three texts are null and whose commands are objects is
\* rendered as three rows.
C10_Witness ==
    /\ appPc = "rendered"
    /\ ~renderThrew
    /\ RenderedRecord.initialCall = JNull
    /\ RenderedRecord.atcCall = JNull
    /\ RenderedRecord.feedbackCall = JNull
    /\ Len(content.sessions) = 1
    /\ Len(content.sessions[1].rows) = 3

----------------------------------------------------------------------------
(* The command buttons. *)

PilotRows == {1, 3}

\* C11: a record whose feedbackCommand is null (its initialCommand being an
\* object) is rendered without an exception, as three rows, and its feedback
\* row bears the disabled button, whose click listener opens no popup.
C11_NullFeedbackDisabled ==
    appPc = "rendered" /\ RenderedRecord.feedbackCommand = JNull
    /\ RenderedRecord.initialCommand # JNull
    => /\ ~renderThrew
       /\ Len(content.sessions) = 1
       /\ Len(content.sessions[1].rows) = 3
       /\ content.sessions[1].rows[3].control = Button("null-state", <<>>, "none")
       /\ ButtonListener(popups, content.sessions[1].rows[3], NavDict) = popups

\* C12: in every rendered session, the button of a command with
\* playOnAwake = true has a click listener that opens the automatic-action
\* notice, and opens nothing else.
C12_PlayOnAwakeShowsNotice ==
    \A s \in 1..Len(content.sessions) : \A r \in PilotRows :
        /\ content.sessions[s].rows[r].commandData.type = "object"
        /\ content.sessions[s].rows[r].commandData.playOnAwake = JBool(TRUE)
        => ButtonListener(<<>>, content.sessions[s].rows[r], NavDict) = <<showAutoPlayMessagePopup>>

\* The command has the field caption, a string that is not empty.
HasCaption(commandData) ==
    /\ commandData.type = "object"
    /\ commandData.caption.type = "string"
    /\ commandData.caption.s # <<>>

\* C13: in every rendered session, a pilot row whose command has a caption
\* bears a button that is not the disabled one and is labelled with that
\* caption, and a pilot row bears the disabled button only when its command
\* is absent or has no caption.
C13_CaptionGivesButton ==
    \A s \in 1..Len(content.sessions) : \A r \in PilotRows :
        /\ HasCaption(content.sessions[s].rows[r].commandData)
           => /\ content.sessions[s].rows[r].control.kind = "button"
              /\ content.sessions[s].rows[r].control.state # "null-state"
              /\ content.sessions[s].rows[r].control.caption
                 = content.sessions[s].rows[r].commandData.caption.s
        /\ content.sessions[s].rows[r].control.state = "null-state"
           => ~HasCaption(content.sessions[s].rows[r].commandData)

\* C14: in every rendered session the ATC row bears the icon and the initial
\* and feedback rows bear a button, whatever the caption of their command.
C14_IconOnlyOnAtcRow ==
    \A s \in 1..Len(content.sessions) :
        /\ content.sessions[s].rows[2].control.kind = "icon"
        /\ \A r \in PilotRows : content.sessions[s].rows[r].control.kind = "button"

----------------------------------------------------------------------------
(* The formatter. *)

\* The text formatted, its first placeholder {FormatInner} and what follows it.
FormatInput == RenderedRecord.initialCall.s
FirstClose(text) == CHOOSE k \in 1..Len(text) : text[k] = "}" /\ \A j \in 1..(k - 1) : text[j] # "}"
FormatInner == SubSeq(FormatInput, 2, FirstClose(FormatInput) - 1)
FormatRest == SubSeq(FormatInput, FirstClose(FormatInput) + 1, Len(FormatInput))

\* The HTML the formatter gave, the text inside its first span and what
\* follows that span.
FormatOutput == content.sessions[1].rows[1].html
FormatDict == NavDict.entries
SpanEnd(html) == CHOOSE k \in 1..Len(html) : html[k] = SpanClose /\ \A j \in 1..(k - 1) : html[j] # SpanClose
SpannedText == SubSeq(FormatOutput, 2, SpanEnd(FormatOutput) - 1)
RestOutput == SubSeq(FormatOutput, SpanEnd(FormatOutput) + 1, Len(FormatOutput))

\* The spans of placeholders in a piece of HTML.
BraceSpans(html) == {k \in 1..(Len(html) - 1) : html[k].t = "open" /\ html[k + 1] = Ch("{")}

\* The entries whose normalized name, or one of whose normalized values, is
\* the normalized text of the placeholder, and the first of them (0: none).
MatchesValue(entry, inner) ==
    \E v \in 1..Len(entry.values) : normalizeString(entry.values[v]) = normalizeString(inner)
MatchesEntry(entry, inner) ==
    normalizeString(entry.name) = normalizeString(inner) \/ MatchesValue(entry, inner)
MatchingEntries(dict, inner) == {n \in 1..Len(dict) : MatchesEntry(dict[n], inner)}
FirstMatch(dict, inner) ==
    IF MatchingEntries(dict, inner) = {} THEN 0
    ELSE CHOOSE n \in MatchingEntries(dict, inner) : \A m \in MatchingEntries(dict, inner) : n <= m

\* The annotation of a placeholder resolved to `entry`.
ResolvedTo(entry) == SpanOpen("variable-text", entry.name \o <<":", " ">> \o Trim(entry.description))

\* inner is `name`, a space and a literal of letters and digits.
NameThenLiteral(inner, name) ==
    /\ Len(inner) > Len(name) + 1
    /\ SubSeq(inner, 1, Len(name)) = name
    /\ inner[Len(name) + 1] = " "
    /\ \A k \in (Len(name) + 2)..Len(inner) : IsAlnum(inner[k])

\* C15, as claimed: a placeholder made of the name of a parameter of the
\* dictionary, a space and a literal is wrapped with the description of that
\* parameter, whatever the literal.
C15_NameWithLiteralResolves ==
    appPc = "rendered"
    => \A n \in 1..Len(FormatDict) :
         NameThenLiteral(FormatInner, FormatDict[n].name)
         => ~renderThrew /\ FormatOutput[1] = ResolvedTo(FormatDict[n])

\* C15, as amended: such a placeholder is wrapped with the description of
\* that parameter exactly when that parameter is the first of the dictionary
\* whose normalized name or value is the whole normalized text of the
\* placeholder, and it gets the no-data annotation when there is none.
C15_NameWithLiteralByValue ==
    appPc = "rendered"
    => \A n \in 1..Len(FormatDict) :
         NameThenLiteral(FormatInner, FormatDict[n].name)
         => /\ ~renderThrew
            /\ (FormatOutput[1] = ResolvedTo(FormatDict[n]))
               <=> (FirstMatch(FormatDict, FormatInner) = n)
            /\ FirstMatch(FormatDict, FormatInner) = 0
               => FormatOutput[1].cls = "no-tooltip-text"

\* {N 7} is wrapped with the description of N, one of whose values is "N 7".
C15_Witness ==
    /\ appPc = "rendered"
    /\ FormatInner = <<"N", " ", "7">>
    /\ FormatDict[1].name = <<"N">>
    /\ FormatOutput[1] = ResolvedTo(FormatDict[1])

\* a and b are the same up to the case of their letters and to the
\* characters that are neither letters nor digits.
RECURSIVE IsVariant(_, _)
IsVariant(a, b) ==
    IF a # <<>> /\ ~IsAlnum(Head(a)) THEN IsVariant(Tail(a), b)
    ELSE IF b # <<>> /\ ~IsAlnum(Head(b)) THEN IsVariant(a, Tail(b))
    ELSE IF a = <<>> \/ b = <<>> THEN a = b
    ELSE ToLower(Head(a)) = ToLower(Head(b)) /\ IsVariant(Tail(a), Tail(b))

\* C16: a placeholder that is a variant of the name P of a parameter, in the
\* case of its letters and in characters that are neither letters nor
\* digits, gets the annotation (class and description) that {P} gets.
C16_VariantsResolveAlike ==
    appPc = "rendered"
    => \A n \in 1..Len(FormatDict) :
         IsVariant(FormatInner, FormatDict[n].name)
         => /\ ~renderThrew
            /\ FormatOutput[1]
               = formatCallContent(JStr(Placeholder(FormatDict[n].name)), NavDict).value[1]

\* {q7} is resolved to the parameter named Q-7.
C16_Witness ==
    /\ appPc = "rendered"
    /\ FormatInner = <<"q", "7">>
    /\ \E n \in 1..Len(FormatDict) :
         /\ FormatDict[n].name = <<"Q", "-", "7">>
         /\ FormatOutput[1] = ResolvedTo(FormatDict[n])

\* C17: a placeholder that matches no name and no value is emitted, braces
\* and text, inside a span of the class no-tooltip-text whose tooltip names
\* it; the render does not throw, what follows is formatted as it is on its
\* own, and every placeholder of the text has its span.
C17_UnresolvedAnnotated ==
    appPc = "rendered" /\ MatchingEntries(FormatDict, FormatInner) = {}
    => /\ ~renderThrew
       /\ FormatOutput # <<>>
       /\ FormatOutput[1] = SpanOpen("no-tooltip-text", NoDataPrefix \o FormatInner)
       /\ SpannedText = Text(Placeholder(FormatInner))
       /\ RestOutput = formatCallContent(JStr(FormatRest), NavDict).value
       /\ Cardinality(BraceSpans(FormatOutput))
          = Cardinality({k \in 1..Len(FormatInput) : FormatInput[k] = "{"})

\* {N-N} is unresolved and the placeholder after it is resolved.
C17_Witness ==
    /\ appPc = "rendered"
    /\ FormatInner = <<"N", "-", "N">>
    /\ FormatOutput[1].cls = "no-tooltip-text"
    /\ \E k \in BraceSpans(RestOutput) : RestOutput[k].cls = "variable-text"

\* C18: a placeholder whose braces hold nothing or only whitespace is not
\* resolved to a parameter, whatever the dictionary.
C18_EmptyBracesUnresolved ==
    appPc = "rendered" /\ ~renderThrew /\ Trim(FormatInner) = <<>>
    => FormatOutput[1].cls # "variable-text"

\* C19: a placeholder that matches more than one parameter, by name or by
\* value, is resolved to the first of them in the order of the dictionary.
C19_FirstMatchWins ==
    appPc = "rendered" /\ Cardinality(MatchingEntries(FormatDict, FormatInner)) > 1
    => /\ ~renderThrew
       /\ FormatOutput[1] = ResolvedTo(FormatDict[FirstMatch(FormatDict, FormatInner)])

\* {Q} matches the first parameter by a value and the second by its name,
\* and is resolved to the first.
C19_Witness ==
    /\ appPc = "rendered"
    /\ FormatInner = <<"Q">>
    /\ MatchingEntries(FormatDict, FormatInner) = {1, 2}
    /\ FormatDict[2].name = <<"Q">>
    /\ FormatOutput[1] = ResolvedTo(FormatDict[1])

\* C20: a placeholder whose normalized text is a normalized value of the
\* parameter P, and neither name nor value of an earlier parameter, is
\* resolved to P: the span holds the braces and the text as they were, and its
\* tooltip is the name of P, ": " and the description of P (without the
\* whitespace around it).
C20_ValueMatchResolves ==
    appPc = "rendered"
    => \A n \in 1..Len(FormatDict) :
         /\ MatchesValue(FormatDict[n], FormatInner)
         /\ \A m \in 1..(n - 1) : ~MatchesEntry(FormatDict[m], FormatInner)
         => /\ ~renderThrew
            /\ FormatOutput[1].cls = "variable-text"
            /\ SubSeq(FormatOutput[1].tip, 1, Len(FormatDict[n].name) + 2)
               = FormatDict[n].name \o <<":", " ">>
            /\ Trim(SubSeq(FormatOutput[1].tip, Len(FormatDict[n].name) + 3,
                           Len(FormatOutput[1].tip)))
               = Trim(FormatDict[n].description)
            /\ SpannedText = Text(Placeholder(FormatInner))

\* {N-7} is resolved to the second parameter, N, by its value "N 7".
C20_Witness ==
    /\ appPc = "rendered"
    /\ FormatInner = <<"N", "-", "7">>
    /\ Len(FormatDict) = 2
    /\ FormatDict[2].name = <<"N">>
    /\ FormatOutput[1].tip = <<"N", ":", " ", "a">>

\* C21: at most one popup overlay (description popup, details popup or
\* automatic-action notice) is open at any time.
C21_AtMostOnePopup == Len(popups) <= 1

\* C22: a name of the parameter list of a command that is a variant, in the
\* case of its letters and in characters that are neither letters nor
\* digits, of a key of the dictionary is shown in the details popup with the
\* allowed values of the first such key, and not as having no data.
C22_PopupResolvesVariants ==
    \A p \in 1..Len(popups) :
        popups[p].kind = "details"
        => \A i \in 1..Len(popups[p].parameters) : \A n \in 1..Len(FormatDict) :
             /\ IsVariant(popups[p].parameters[i].name, FormatDict[n].name)
             /\ \A m \in 1..(n - 1) :
                   ~IsVariant(popups[p].parameters[i].name, FormatDict[m].name)
             => /\ popups[p].parameters[i].detail
                /\ popups[p].parameters[i].options = FormatDict[n].values

\* C23: a session stays highlighted until the timer of the click that
\* highlighted it fires: the timer that ends a highlight is the last one
\* started for that session, never one of an earlier click on it.
C23_HighlightLastsItsTimer ==
    [][HighlightTimerFires /\ Head(highlightTimers) \in highlighted
       => \A t \in 2..Len(highlightTimers) :
            highlightTimers[t] # Head(highlightTimers)]_vars

\* The jump links of the phase list, in their order.
JumpLinks == SelectSeq(phaseList, LAMBDA e : e.kind = "jump")

\* C24: the sessions of the container have distinct ids, and after a render
\* pass that went through, the k-th jump link targets the k-th session.
C24_DistinctSessionIds ==
    /\ \A i, j \in 1..Len(content.sessions) :
          content.sessions[i].id = content.sessions[j].id => i = j
    /\ ~renderThrew
       => \A k \in 1..Len(JumpLinks) :
            k <= Len(content.sessions)
            => GetSessionById(content, Tail(JumpLinks[k].href)) = k

\* C25: the jump links of the phase list are the links of the sessions of
\* the container, one for each and in their order.
C25_JumpLinksMatchSessions ==
    [k \in 1..Len(JumpLinks) |-> JumpLinks[k].href]
    = [i \in 1..Len(content.sessions) |-> <<"#">> \o content.sessions[i].id]

\* A piece of HTML without its tags.
Unspanned(html) == SelectSeq(html, LAMBDA token : token.t = "ch")

\* C26: formatCallContent only adds markup: the HTML it gives for a text,
\* without the tags of the spans, is that text, character for character.
C26_OnlyAddsMarkup ==
    appPc = "rendered"
    => /\ ~renderThrew
       /\ content.sessions # <<>>
       /\ Unspanned(FormatOutput) = Text(FormatInput)

\* A text with a resolved placeholder and a standalone name, each in its span.
C26_Witness ==
    /\ appPc = "rendered"
    /\ FormatInput = <<"{", "q", "7", "}", " ", "Q", "-", "7">>
    /\ Cardinality({k \in 1..Len(FormatOutput) : FormatOutput[k].t = "open"}) = 2
    /\ FormatOutput[1].cls = "variable-text"
    /\ FormatOutput[Len(FormatOutput)] = SpanClose

\* C27: the flag of every node type is the checked state of the checkbox of
\* that type, and a change of a group checkbox sets the flags of the four
\* types of the group to the new state of the group and no other flag.
C27_FlagsFollowCheckboxes ==
    /\ [](mapPc = "ready"
          => \A type \in NodeTypes :
               visibleNodeTypes[type] = filterChecked[FilterId(type)])
    /\ [][\A group \in FilterGroups :
            /\ mapPc = "ready"
            /\ filterChecked'[FilterId(group.name)] # filterChecked[FilterId(group.name)]
            => /\ Cardinality(group.types) = 4
               /\ \A type \in NodeTypes :
                    visibleNodeTypes'[type]
                    = IF type \in group.types
                      THEN filterChecked'[FilterId(group.name)]
                      ELSE visibleNodeTypes[type]]_vars

\* The arrival group has been unchecked and one of its types checked again,
\* after a type outside the groups was unchecked.
C27_Witness ==
    /\ mapPc = "ready"
    /\ ~filterChecked[FilterId("arrivalGroup")]
    /\ visibleNodeTypes["Arrival"]
    /\ ~visibleNodeTypes["PreArrival"]
    /\ ~visibleNodeTypes["More_OnSky"]
    /\ visibleNodeTypes["Departure"]

====
